---- MODULE Spec2Model ----
(***************************************************************************)
(* Key-discovery engine of tools-analytics-data-models:                    *)
(*   finder_primary_key.py  (validate_key_on_subset, find_minimal_pk, ...) *)
(*   finder_column_level.py (classify_columns, find_most_duplicated_values)*)
(* A DataFrame is a record [columns, index, rows]: the ordered column      *)
(* names, the row labels, and one function column -> value per row.        *)
(* A value is a pair <<kind, text>>; the missing value (NaN) is Null.      *)
(***************************************************************************)
EXTENDS Integers, Sequences, FiniteSets, TLC

VARIABLES
    pc,                  \* which entry point is running and where it stands
    df_subset,           \* the DataFrame handed to the function under call
    key_columns,         \* validate_key_on_subset: the key list S
    wider_columns,       \* validate_key_on_subset: a second key list T
    validation,          \* result of validate_key_on_subset(df_subset, S)
    wider_validation,    \* result of validate_key_on_subset(df_subset, T)
    base_key,            \* find_minimal_pk: argument base_key
    item_level_columns,  \* find_minimal_pk: argument item_level_columns
    pk,                  \* find_minimal_pk: its locals, position and result
    df,                  \* main: the loaded DataFrame
    original_count,      \* main: len(df) before the full duplicates are removed
    SEARCH_KEY,          \* configuration: the scope column
    BASE_KEY,            \* configuration: the base key columns
    top_search,          \* main: result of find_most_duplicated_search_key
    classification,      \* main: result of classify_columns_by_variance
    columns,             \* analyze_row_hashes: argument columns
    df_hash,             \* analyze_row_hashes: the copy with its row_hash column
    hash_analysis,       \* result of analyze_row_hashes
    base_validation,     \* main: result of validate_key_on_subset on BASE_KEY
    minimal_pk_result,   \* main: result of find_minimal_pk, or None
    protected_columns,   \* classify_columns: argument protected_columns
    column_classification, \* result of classify_columns
    search_key,          \* find_most_duplicated_values: argument search_key
    top_n,               \* find_most_duplicated_values: argument top_n
    top_n_values         \* result of find_most_duplicated_values

validateVars == <<key_columns, wider_columns, validation, wider_validation>>
pkVars == <<base_key, item_level_columns, pk>>
configVars == <<SEARCH_KEY, BASE_KEY>>
hashVars == <<columns, df_hash>>
mainVars == <<df, original_count, configVars, top_search, classification,
              hash_analysis, base_validation, minimal_pk_result>>
classifyVars == <<protected_columns, column_classification>>
topNVars == <<search_key, top_n, top_n_values>>
vars == <<pc, df_subset, validateVars, pkVars, mainVars, classifyVars, topNVars,
          hashVars>>

----------------------------------------------------------------------------
\* Bounds of the enumerated inputs.
MaxRows == 3
MaxTopN == 3

\* Values: NaN and two numbers.
Null == <<"null", "nan">>
Vals == {Null, <<"num", "1">>, <<"num", "2">>}

\* Column names of the enumerated DataFrames, in DataFrame order.
GenColumns == <<"OrderID", "ItemID">>

\* A column name no DataFrame has.
AbsentColumn == "Absent"

\* The column names in the order of Python's string comparison, which
\* sorted() follows.
ColumnNameOrder == <<"ItemID", "Note", "OrderID", "Qty">>

\* The values in ascending order of their kind (numbers by magnitude, strings
\* by code point), which is the order groupby(sort=True) gives the group
\* keys; the NaN group comes last.
SortedValues ==
    <<<<"num", "1">>, <<"num", "2">>, <<"num", "5">>, <<"num", "100">>,
      <<"num", "101">>, <<"num", "102">>, <<"num", "200">>,
      <<"str", "A1">>, <<"str", "B2">>,
      <<"str", "x">>, <<"str", "y">>, <<"str", "z">>, Null>>

None == [kind |-> "None"]

----------------------------------------------------------------------------
\* Sequence helpers.
Range(s) == {s[i] : i \in 1..Len(s)}

IsInjective(s) == \A i, j \in 1..Len(s) : s[i] = s[j] => i = j

\* All lists without repetition over the set S.
ListsOver(S) ==
    UNION {{s \in [1..n -> S] : IsInjective(s)} : n \in 0..Cardinality(S)}

Filter(s, Keep(_)) == SelectSeq(s, Keep)

\* len(df)
NRows(frame) == Len(frame.rows)

\* pd.isnull(value)
IsNull(v) == v[1] = "null"

\* The boolean cell True, as the Excel reader delivers it.
BoolTrue == <<"bool", "True">>

\* The dtype the reader infers for a column from its values: object when a
\* string is among them (or there is no value at all) or when booleans stand
\* beside other values, bool for booleans only, float64 for numbers with a
\* NaN, int64 for numbers only.
InferDtype(values) ==
    IF values = {} \/ \E v \in values : v[1] = "str" THEN "object"
    ELSE IF \E v \in values : v[1] = "bool"
         THEN IF \A v \in values : v[1] = "bool" THEN "bool" ELSE "object"
         ELSE IF \E v \in values : IsNull(v) THEN "float64"
              ELSE "int64"

\* The DataFrame the reader builds from n rows of cells.
LoadedFrame(cols, n, r) ==
    [columns |-> cols,
     index |-> [i \in 1..n |-> i - 1],
     rows |-> r,
     dtypes |-> [c \in Range(cols) |-> InferDtype({r[i][c] : i \in 1..n})]]

\* DataFrames with the given columns, a RangeIndex and at most MaxRows rows.
Frames(cols) ==
    UNION {{LoadedFrame(cols, n, r) : r \in [1..n -> [Range(cols) -> Vals]]} :
              n \in 0..MaxRows}

----------------------------------------------------------------------------
\* df_subset[col].isnull().sum()
NullCount(frame, col) ==
    Cardinality({i \in 1..NRows(frame) : IsNull(frame.rows[i][col])})

\* The value under which pandas' hash tables file a cell when they look for
\* repeats: objects are compared with ==, and True == 1 (with equal hashes).
PandasKey(v) == IF v = BoolTrue THEN <<"num", "1">> ELSE v

\* The tuple of row i over the ordered column list cols (df[cols] at row i),
\* as drop_duplicates and duplicated compare it.
Project(frame, cols, i) == [k \in 1..Len(cols) |-> PandasKey(frame.rows[i][cols[k]])]

\* DataFrame.empty of df[cols]: some axis has length 0.
IsEmptyFrame(frame, cols) == NRows(frame) = 0 \/ Len(cols) = 0

\* A variant of drop_duplicates that takes a row for a repeat as soon as one
\* of its columns repeats the value of an earlier row.
DropDuplicatesRowsAnyColumn(frame, cols) ==
    IF IsEmptyFrame(frame, cols)
    THEN 1..NRows(frame)
    ELSE {i \in 1..NRows(frame) :
            \A j \in 1..(i - 1) :
                \A k \in 1..Len(cols) :
                    Project(frame, cols, j)[k] # Project(frame, cols, i)[k]}

\* Row positions kept by df[cols].drop_duplicates(): pandas returns an empty
\* frame (no rows or no columns) unchanged, otherwise keeps the first
\* occurrence of every tuple; NaN equals NaN in this comparison.
DropDuplicatesRows(frame, cols) ==
    IF IsEmptyFrame(frame, cols)
    THEN 1..NRows(frame)
    ELSE {i \in 1..NRows(frame) :
            \A j \in 1..(i - 1) : Project(frame, cols, j) # Project(frame, cols, i)}

\* A variant that flags only the later occurrences of a repeated tuple, as
\* duplicated() does without keep=False.
DuplicatedRowsKeepFirst(frame, cols) ==
    IF IsEmptyFrame(frame, cols)
    THEN {}
    ELSE {i \in 1..NRows(frame) :
            \E j \in 1..(i - 1) : Project(frame, cols, j) = Project(frame, cols, i)}

\* Row positions flagged by df[cols].duplicated(keep=False): none for an
\* empty frame, otherwise every row whose tuple occurs more than once.
DuplicatedRows(frame, cols) ==
    IF IsEmptyFrame(frame, cols)
    THEN {}
    ELSE {i \in 1..NRows(frame) :
            \E j \in 1..NRows(frame) :
                j # i /\ Project(frame, cols, j) = Project(frame, cols, i)}

\* The labels of the rows at the given positions, in row order.
IndexOf(frame, positions) ==
    LET Pick[i \in 0..NRows(frame)] ==
            IF i = 0 THEN <<>>
            ELSE IF i \in positions THEN Append(Pick[i - 1], frame.index[i])
                 ELSE Pick[i - 1]
    IN Pick[NRows(frame)]

\* A variant of the validator whose duplicate_count is the number of rows
\* that duplicated(keep=False) flags.
ValidateKeyOnSubsetCountsFlagged(frame, cols) ==
    LET total_rows == NRows(frame)
        null_cols == Filter(cols, LAMBDA c : NullCount(frame, c) > 0)
        null_counts == [c \in Range(null_cols) |-> NullCount(frame, c)]
        has_nulls == Len(null_cols) > 0
        unique_count == Cardinality(DropDuplicatesRows(frame, cols))
        duplicate_count == Cardinality(DuplicatedRows(frame, cols))
        duplicate_rows == IF duplicate_count > 0
                          THEN IndexOf(frame, DuplicatedRows(frame, cols))
                          ELSE <<>>
    IN [is_valid |-> (duplicate_count = 0) /\ ~has_nulls,
        total_rows |-> total_rows,
        unique_count |-> unique_count,
        duplicate_count |-> duplicate_count,
        has_nulls |-> has_nulls,
        null_counts |-> null_counts,
        duplicate_rows |-> duplicate_rows]

\* validate_key_on_subset(df_subset, key_columns)
ValidateKeyOnSubset(frame, cols) ==
    LET total_rows == NRows(frame)
        null_cols == Filter(cols, LAMBDA c : NullCount(frame, c) > 0)
        null_counts == [c \in Range(null_cols) |-> NullCount(frame, c)]
        has_nulls == Len(null_cols) > 0
        unique_count == Cardinality(DropDuplicatesRows(frame, cols))
        duplicate_count == total_rows - unique_count
        duplicate_rows == IF duplicate_count > 0
                          THEN IndexOf(frame, DuplicatedRows(frame, cols))
                          ELSE <<>>
    IN [is_valid |-> (duplicate_count = 0) /\ ~has_nulls,
        total_rows |-> total_rows,
        unique_count |-> unique_count,
        duplicate_count |-> duplicate_count,
        has_nulls |-> has_nulls,
        null_counts |-> null_counts,
        duplicate_rows |-> duplicate_rows]

----------------------------------------------------------------------------
\* find_minimal_pk(df_subset, base_key, item_level_columns), as the steps of
\* its body over a record p of its locals.  p.pc is the position:
\*   "seed"    before line 300          "seeded"  at the test of line 314
\*   "while"   at the test of line 398  "for"     inside the scan of line 402
\*   "result"  at line 424              "returned" after a return
PkEntry ==
    [pc |-> "seed", current_key |-> <<>>, removed_columns |-> <<>>,
     iterations |-> <<>>, validation |-> None, improved |-> FALSE,
     scan |-> <<>>, result |-> None]

\* No call of find_minimal_pk is in progress.
PkIdle ==
    /\ base_key = <<>>
    /\ item_level_columns = <<>>
    /\ pk = None

\* All orders in which list(set) may enumerate the set S.
ListOfSet(S) == {s \in [1..Cardinality(S) -> S] : IsInjective(s)}

\* Lines 299-312: the seed key, its validation, the first trace entry.
PkSeedStep(frame, base, items, p) ==
    LET current_key == base \o items
        v == ValidateKeyOnSubset(frame, current_key)
    IN [p EXCEPT !.pc = "seeded",
                 !.current_key = current_key,
                 !.removed_columns = <<>>,
                 !.iterations = <<[columns |-> current_key,
                                   count |-> Len(current_key),
                                   is_valid |-> v.is_valid,
                                   unique_count |-> v.unique_count,
                                   duplicate_count |-> v.duplicate_count]>>,
                 !.validation = v]

\* The diagnostic counts returned with a failure.
DebugInfo(v) ==
    [total_rows |-> v.total_rows, unique_count |-> v.unique_count,
     duplicate_count |-> v.duplicate_count]

\* Lines 314, 396-397: the seed is valid, the reduction loop is entered.
PkSeedValidStep(frame, base, items, p) ==
    [p EXCEPT !.pc = "while", !.improved = TRUE]

\* Lines 367-394: the seed has duplicates (with or without nulls).
PkDuplicateFailureStep(frame, base, items, p) ==
    [p EXCEPT !.pc = "returned",
              !.result = [minimal_key |-> p.current_key,
                          is_valid |-> FALSE,
                          added_columns |-> items,
                          removed_columns |-> <<>>,
                          iterations |-> p.iterations,
                          debug_info |-> DebugInfo(p.validation)]]

\* A variant of the null rescue that drops the null-bearing columns and goes
\* on into the reduction loop without validating the rest.
PkNullRescueStepUnchecked(frame, base, items, p, order) ==
    LET columns_with_nulls == DOMAIN p.validation.null_counts
        current_key_no_null ==
            Filter(p.current_key, LAMBDA c : c \notin columns_with_nulls)
    IN [p EXCEPT !.pc = "while",
                 !.improved = TRUE,
                 !.current_key = current_key_no_null,
                 !.iterations = Append(p.iterations,
                     [action |-> "Removed "
                                 \o ToString(Cardinality(columns_with_nulls))
                                 \o " columns with NULLs",
                      columns |-> current_key_no_null,
                      count |-> Len(current_key_no_null),
                      is_valid |-> TRUE])]

\* A variant of the null rescue that drops the null-bearing columns of the
\* item-level list only and keeps those of the base key.
PkNullRescueStepSparesBaseKey(frame, base, items, p, order) ==
    LET columns_with_nulls == DOMAIN p.validation.null_counts \ Range(base)
        current_key_no_null ==
            Filter(p.current_key, LAMBDA c : c \notin columns_with_nulls)
        validation_no_null == ValidateKeyOnSubset(frame, current_key_no_null)
    IN IF validation_no_null.is_valid
       THEN [p EXCEPT !.pc = "while",
                      !.improved = TRUE,
                      !.current_key = current_key_no_null,
                      !.validation = validation_no_null,
                      !.iterations = Append(p.iterations,
                          [action |-> "Removed "
                                      \o ToString(Cardinality(columns_with_nulls))
                                      \o " columns with NULLs",
                           columns |-> current_key_no_null,
                           count |-> Len(current_key_no_null),
                           is_valid |-> TRUE])]
       ELSE [p EXCEPT !.pc = "returned",
                      !.result = [minimal_key |-> current_key_no_null,
                                  is_valid |-> FALSE,
                                  added_columns |->
                                      Filter(current_key_no_null,
                                             LAMBDA c : c \in Range(items)),
                                  removed_columns |-> order,
                                  iterations |-> p.iterations,
                                  debug_info |-> DebugInfo(validation_no_null)]]

\* Lines 329-366: the seed is unique but has nulls; the null-bearing columns
\* are dropped and the rest validated.  order is the order in which
\* list(columns_with_nulls) enumerates the set.
PkNullRescueStep(frame, base, items, p, order) ==
    LET columns_with_nulls == DOMAIN p.validation.null_counts
        current_key_no_null ==
            Filter(p.current_key, LAMBDA c : c \notin columns_with_nulls)
        validation_no_null == ValidateKeyOnSubset(frame, current_key_no_null)
    IN IF validation_no_null.is_valid
       THEN [p EXCEPT !.pc = "while",
                      !.improved = TRUE,
                      !.current_key = current_key_no_null,
                      !.validation = validation_no_null,
                      !.iterations = Append(p.iterations,
                          [action |-> "Removed "
                                      \o ToString(Cardinality(columns_with_nulls))
                                      \o " columns with NULLs",
                           columns |-> current_key_no_null,
                           count |-> Len(current_key_no_null),
                           is_valid |-> TRUE])]
       ELSE [p EXCEPT !.pc = "returned",
                      !.result = [minimal_key |-> current_key_no_null,
                                  is_valid |-> FALSE,
                                  added_columns |->
                                      Filter(current_key_no_null,
                                             LAMBDA c : c \in Range(items)),
                                  removed_columns |-> order,
                                  iterations |-> p.iterations,
                                  debug_info |-> DebugInfo(validation_no_null)]]

\* A variant of the loop test that starts a new scan whether or not the last
\* one removed a column.
PkWhileStepAlwaysRescans(frame, base, items, p) ==
    [p EXCEPT !.pc = "for", !.improved = FALSE, !.scan = p.current_key]

\* A variant of the loop test whose scans go over the candidate from its
\* last column to its first.
PkWhileStepScansBackwards(frame, base, items, p) ==
    IF p.improved
    THEN [p EXCEPT !.pc = "for", !.improved = FALSE,
                   !.scan = [i \in 1..Len(p.current_key) |->
                                p.current_key[Len(p.current_key) + 1 - i]]]
    ELSE [p EXCEPT !.pc = "result"]

\* Lines 398-402: the test of the while loop; a new scan starts over a copy
\* of current_key, or the loop ends.
PkWhileStep(frame, base, items, p) ==
    IF p.improved
    THEN [p EXCEPT !.pc = "for", !.improved = FALSE, !.scan = p.current_key]
    ELSE [p EXCEPT !.pc = "result"]

\* A variant of the scan that gives up at the first column whose removal is
\* invalid instead of moving to the next column.
PkForStepStopsAtInvalid(frame, base, items, p) ==
    IF p.scan = <<>>
    THEN [p EXCEPT !.pc = "while"]
    ELSE LET col == Head(p.scan)
             temp_key == Filter(p.current_key, LAMBDA c : c # col)
             temp_validation == ValidateKeyOnSubset(frame, temp_key)
         IN IF col \in Range(base)
            THEN [p EXCEPT !.scan = Tail(p.scan)]
            ELSE IF temp_validation.is_valid
                 THEN [p EXCEPT !.pc = "while",
                                !.current_key = temp_key,
                                !.removed_columns = Append(p.removed_columns, col),
                                !.iterations = Append(p.iterations,
                                    [action |-> "Removed: " \o col,
                                     columns |-> temp_key,
                                     count |-> Len(temp_key),
                                     is_valid |-> TRUE]),
                                !.improved = TRUE,
                                !.scan = <<>>]
                 ELSE [p EXCEPT !.scan = <<>>]

\* A variant of the scan that tries the base-key columns as well.
PkForStepTriesBaseKey(frame, base, items, p) ==
    IF p.scan = <<>>
    THEN [p EXCEPT !.pc = "while"]
    ELSE LET col == Head(p.scan)
             temp_key == Filter(p.current_key, LAMBDA c : c # col)
             temp_validation == ValidateKeyOnSubset(frame, temp_key)
         IN IF temp_validation.is_valid
            THEN [p EXCEPT !.pc = "while",
                           !.current_key = temp_key,
                           !.removed_columns = Append(p.removed_columns, col),
                           !.iterations = Append(p.iterations,
                               [action |-> "Removed: " \o col,
                                columns |-> temp_key,
                                count |-> Len(temp_key),
                                is_valid |-> TRUE]),
                           !.improved = TRUE,
                           !.scan = <<>>]
            ELSE [p EXCEPT !.scan = Tail(p.scan)]

\* A variant of the scan that goes on after a removal instead of breaking:
\* the remaining columns are tried against the shortened candidate.
PkForStepNoBreak(frame, base, items, p) ==
    IF p.scan = <<>>
    THEN [p EXCEPT !.pc = "while"]
    ELSE LET col == Head(p.scan)
             temp_key == Filter(p.current_key, LAMBDA c : c # col)
             temp_validation == ValidateKeyOnSubset(frame, temp_key)
         IN IF col \in Range(base)
            THEN [p EXCEPT !.scan = Tail(p.scan)]
            ELSE IF temp_validation.is_valid
                 THEN [p EXCEPT !.current_key = temp_key,
                                !.removed_columns = Append(p.removed_columns, col),
                                !.iterations = Append(p.iterations,
                                    [action |-> "Removed: " \o col,
                                     columns |-> temp_key,
                                     count |-> Len(temp_key),
                                     is_valid |-> TRUE]),
                                !.improved = TRUE,
                                !.scan = Tail(p.scan)]
                 ELSE [p EXCEPT !.scan = Tail(p.scan)]

\* Lines 402-421: one iteration of the for loop over the copy.
PkForStep(frame, base, items, p) ==
    IF p.scan = <<>>
    THEN [p EXCEPT !.pc = "while"]
    ELSE LET col == Head(p.scan)
             temp_key == Filter(p.current_key, LAMBDA c : c # col)
             temp_validation == ValidateKeyOnSubset(frame, temp_key)
         IN IF col \in Range(base)
            THEN [p EXCEPT !.scan = Tail(p.scan)]
            ELSE IF temp_validation.is_valid
                 THEN [p EXCEPT !.pc = "while",
                                !.current_key = temp_key,
                                !.removed_columns = Append(p.removed_columns, col),
                                !.iterations = Append(p.iterations,
                                    [action |-> "Removed: " \o col,
                                     columns |-> temp_key,
                                     count |-> Len(temp_key),
                                     is_valid |-> TRUE]),
                                !.improved = TRUE,
                                !.scan = <<>>]
                 ELSE [p EXCEPT !.scan = Tail(p.scan)]

\* A variant of the valid result that reports the whole item-level list as
\* added_columns.
PkResultStepAddsAllItems(frame, base, items, p) ==
    [p EXCEPT !.pc = "returned",
              !.result = [minimal_key |-> p.current_key,
                          is_valid |-> TRUE,
                          added_columns |-> items,
                          removed_columns |-> p.removed_columns,
                          iterations |-> p.iterations]]

\* Lines 423-432: the valid result.
PkResultStep(frame, base, items, p) ==
    [p EXCEPT !.pc = "returned",
              !.result = [minimal_key |-> p.current_key,
                          is_valid |-> TRUE,
                          added_columns |->
                              Filter(p.current_key, LAMBDA c : c \in Range(items)),
                          removed_columns |-> p.removed_columns,
                          iterations |-> p.iterations]]

\* A variant of the branch that goes to the null rescue whenever the seed
\* has nulls, duplicates or not.
PkRescuesWithDuplicates(p) ==
    ~p.validation.is_valid /\ p.validation.has_nulls

\* The branch taken at line 314 and below.
PkRescues(p) ==
    ~p.validation.is_valid /\ p.validation.has_nulls
        /\ p.validation.duplicate_count = 0

\* The locals one step after p, for each way the step can go.
PkSteps(frame, base, items, p) ==
    CASE p.pc = "seed" -> {PkSeedStep(frame, base, items, p)}
      [] p.pc = "seeded" ->
            IF p.validation.is_valid
            THEN {PkSeedValidStep(frame, base, items, p)}
            ELSE IF PkRescues(p)
                 THEN {PkNullRescueStep(frame, base, items, p, order) :
                         order \in ListOfSet(DOMAIN p.validation.null_counts)}
                 ELSE {PkDuplicateFailureStep(frame, base, items, p)}
      [] p.pc = "while" -> {PkWhileStep(frame, base, items, p)}
      [] p.pc = "for" -> {PkForStep(frame, base, items, p)}
      [] p.pc = "result" -> {PkResultStep(frame, base, items, p)}
      [] OTHER -> {}

\* Every result find_minimal_pk can return on the given arguments.
RECURSIVE PkRun(_, _, _, _)
PkRun(frame, base, items, p) ==
    IF p.pc = "returned"
    THEN {p.result}
    ELSE UNION {PkRun(frame, base, items, q) : q \in PkSteps(frame, base, items, p)}

FindMinimalPk(frame, base, items) == PkRun(frame, base, items, PkEntry)

----------------------------------------------------------------------------
----------------------------------------------------------------------------
\* The DataFrame made of the rows at the given positions, labels kept
\* (df[mask]).
SelectRows(frame, positions) ==
    LET Pick[i \in 0..NRows(frame)] ==
            IF i = 0 THEN <<>>
            ELSE IF i \in positions THEN Append(Pick[i - 1], frame.rows[i])
                 ELSE Pick[i - 1]
    IN [columns |-> frame.columns,
        index |-> IndexOf(frame, positions),
        rows |-> Pick[NRows(frame)],
        dtypes |-> frame.dtypes]

\* A variant of the removal that keeps the last occurrence of every row.
DropFullDuplicatesKeepLast(frame) ==
    LET last == {i \in 1..NRows(frame) :
                    \A j \in (i + 1)..NRows(frame) : frame.rows[j] # frame.rows[i]}
        kept == SelectRows(frame, last)
    IN [kept EXCEPT !.index = [i \in 1..NRows(kept) |-> i - 1]]

\* df.drop_duplicates().reset_index(drop=True)
DropFullDuplicates(frame) ==
    LET kept == SelectRows(frame, DropDuplicatesRows(frame, frame.columns))
    IN [kept EXCEPT !.index = [i \in 1..NRows(kept) |-> i - 1]]

\* The values of a column, and the distinct ones.
ColumnValues(frame, col) == {frame.rows[i][col] : i \in 1..NRows(frame)}

\* Row positions whose value in col is v (NaN matches NaN: the isnull mask).
RowsWithValue(frame, col, v) == {i \in 1..NRows(frame) : frame.rows[i][col] = v}

\* df.groupby(col, dropna=False).size(): the group keys in sorted order, NaN
\* last; the size of the group of v is GroupSize.
GroupKeys(frame, col) ==
    Filter(SortedValues, LAMBDA v : v \in ColumnValues(frame, col))

GroupSize(frame, col, v) == Cardinality(RowsWithValue(frame, col, v))

\* validate_columns_exist(df, columns)
ValidateColumnsExist(frame, cols) ==
    Filter(cols, LAMBDA c : c \notin Range(frame.columns)) = <<>>

\* find_most_duplicated_search_key(df, search_key): among the groups of more
\* than one row, nlargest(1) takes the first of the largest.
FindMostDuplicatedSearchKey(frame, scope) ==
    LET duplicates == Filter(GroupKeys(frame, scope),
                             LAMBDA v : GroupSize(frame, scope, v) > 1)
        largest == Filter(duplicates,
                          LAMBDA v : \A w \in Range(duplicates) :
                              GroupSize(frame, scope, w)
                                  <= GroupSize(frame, scope, v))
        top_value == Head(largest)
    IN IF duplicates = <<>>
       THEN None
       ELSE [value |-> top_value,
             count |-> GroupSize(frame, scope, top_value),
             row_indices |-> IndexOf(frame, RowsWithValue(frame, scope, top_value))]

\* A variant of the top-1 selector that takes the largest group whatever its
\* size.
FindMostDuplicatedValueAnyGroup(frame, scope) ==
    LET groups == GroupKeys(frame, scope)
        largest == Filter(groups,
                          LAMBDA v : \A w \in Range(groups) :
                              GroupSize(frame, scope, w)
                                  <= GroupSize(frame, scope, v))
        top_value == Head(largest)
    IN IF groups = <<>>
       THEN None
       ELSE [value |-> top_value,
             count |-> GroupSize(frame, scope, top_value),
             row_indices |-> IndexOf(frame, RowsWithValue(frame, scope, top_value))]

\* find_most_duplicated_value(df, search_key) of finder_column_level.py.
FindMostDuplicatedValue(frame, scope) ==
    LET duplicates == Filter(GroupKeys(frame, scope),
                             LAMBDA v : GroupSize(frame, scope, v) > 1)
        largest == Filter(duplicates,
                          LAMBDA v : \A w \in Range(duplicates) :
                              GroupSize(frame, scope, w)
                                  <= GroupSize(frame, scope, v))
        top_value == Head(largest)
    IN IF duplicates = <<>>
       THEN None
       ELSE [value |-> top_value,
             count |-> GroupSize(frame, scope, top_value),
             row_indices |-> IndexOf(frame, RowsWithValue(frame, scope, top_value))]

\* get_subset_by_search_key_value(df, search_key, value)
GetSubsetBySearchKeyValue(frame, scope, value) ==
    SelectRows(frame, RowsWithValue(frame, scope, value))

\* A variant of nunique that leaves NaN out of the count (dropna=True).
NUniqueDropNa(frame, col) ==
    Cardinality({v \in ColumnValues(frame, col) : ~IsNull(v)})

\* df_subset[col].nunique(dropna=False): NaN counts as one value.
NUnique(frame, col) == Cardinality(ColumnValues(frame, col))

\* sorted(names), for names without repetition.
SortedNames(names) == Filter(ColumnNameOrder, LAMBDA c : c \in Range(names))

\* classify_columns_by_variance(df_subset, base_key)
ClassifyColumnsByVariance(frame, base) ==
    LET free == Filter(frame.columns, LAMBDA c : c \notin Range(base))
    IN [order_level |-> SortedNames(Filter(free, LAMBDA c : NUnique(frame, c) <= 1)),
        item_level |-> SortedNames(Filter(free, LAMBDA c : NUnique(frame, c) > 1)),
        base_key |-> base]

\* The non-null values of a column in row order (dropna()), and the distinct
\* ones in first-encountered order (dropna().unique()).
SampleSize == 5

Take(s, n) == SubSeq(s, 1, IF Len(s) < n THEN Len(s) ELSE n)

NonNullValues(frame, col) ==
    LET Pick[i \in 0..NRows(frame)] ==
            IF i = 0 THEN <<>>
            ELSE IF IsNull(frame.rows[i][col]) THEN Pick[i - 1]
                 ELSE Append(Pick[i - 1], frame.rows[i][col])
    IN Pick[NRows(frame)]

UniqueNonNullValues(frame, col) ==
    LET Pick[i \in 0..NRows(frame)] ==
            IF i = 0 THEN <<>>
            ELSE IF IsNull(frame.rows[i][col]) \/ frame.rows[i][col] \in Range(Pick[i - 1])
                 THEN Pick[i - 1]
                 ELSE Append(Pick[i - 1], frame.rows[i][col])
    IN Pick[NRows(frame)]

\* part / whole * 100 as the pair <<100 * part, whole>>; division by a
\* zero row count gives NaN.
Percentage(part, whole) == IF whole = 0 THEN "nan" ELSE <<100 * part, whole>>

\* The col_info entries of classify_columns, by the list they go to.
ProtectedInfo(frame, col) ==
    [column |-> col,
     unique_count |-> NUnique(frame, col),
     total_rows |-> NRows(frame),
     null_count |-> NullCount(frame, col),
     null_percentage |-> Percentage(NullCount(frame, col), NRows(frame)),
     sample_values |-> Take(NonNullValues(frame, col), SampleSize)]

OrderLevelInfo(frame, col) ==
    [column |-> col,
     unique_count |-> NUnique(frame, col),
     total_rows |-> NRows(frame),
     null_count |-> NullCount(frame, col),
     null_percentage |-> Percentage(NullCount(frame, col), NRows(frame)),
     sample_value |-> IF NRows(frame) > 0 THEN frame.rows[1][col] ELSE None]

ItemLevelInfo(frame, col) ==
    [column |-> col,
     unique_count |-> NUnique(frame, col),
     total_rows |-> NRows(frame),
     null_count |-> NullCount(frame, col),
     null_percentage |-> Percentage(NullCount(frame, col), NRows(frame)),
     sample_values |-> Take(UniqueNonNullValues(frame, col), SampleSize),
     coverage_percentage |-> Percentage(NUnique(frame, col), NRows(frame))]

\* The entries built by Info for the given columns, sorted by column name.
InfosSortedByName(cols, Info(_)) ==
    LET sorted == SortedNames(cols)
    IN [k \in 1..Len(sorted) |-> Info(sorted[k])]

\* A variant of classify_columns that tests the cardinality before the
\* protected list, so a constant protected column lands in order_level.
ClassifyColumnsCardinalityFirst(frame, protected_list) ==
    LET IsProtected(c) == c \in Range(protected_list) /\ NUnique(frame, c) > 1
        free == Filter(frame.columns, LAMBDA c : ~IsProtected(c))
    IN [order_level |->
            InfosSortedByName(Filter(free, LAMBDA c : NUnique(frame, c) <= 1),
                              LAMBDA c : OrderLevelInfo(frame, c)),
        item_level |->
            InfosSortedByName(Filter(free, LAMBDA c : NUnique(frame, c) > 1),
                              LAMBDA c : ItemLevelInfo(frame, c)),
        protected |->
            InfosSortedByName(Filter(frame.columns, IsProtected),
                              LAMBDA c : ProtectedInfo(frame, c))]

\* classify_columns(df_subset, protected_columns)
ClassifyColumns(frame, protected_list) ==
    LET IsProtected(c) == c \in Range(protected_list)
        free == Filter(frame.columns, LAMBDA c : ~IsProtected(c))
    IN [order_level |->
            InfosSortedByName(Filter(free, LAMBDA c : NUnique(frame, c) <= 1),
                              LAMBDA c : OrderLevelInfo(frame, c)),
        item_level |->
            InfosSortedByName(Filter(free, LAMBDA c : NUnique(frame, c) > 1),
                              LAMBDA c : ItemLevelInfo(frame, c)),
        protected |->
            InfosSortedByName(Filter(frame.columns, IsProtected),
                              LAMBDA c : ProtectedInfo(frame, c))]

\* A variant that sorts the groups by non-decreasing size.
SortedBySizeAscending(frame, col) ==
    {order \in ListOfSet(ColumnValues(frame, col)) :
        \A i, j \in 1..Len(order) :
            i < j => GroupSize(frame, col, order[i]) <= GroupSize(frame, col, order[j])}

\* grouped.sort_values(ascending=False): the group keys in an order of
\* non-increasing size.  The sort is not a stable one, so groups of equal
\* size come out in any order.
SortedBySizeDescending(frame, col) ==
    {order \in ListOfSet(ColumnValues(frame, col)) :
        \A i, j \in 1..Len(order) :
            i < j => GroupSize(frame, col, order[i]) >= GroupSize(frame, col, order[j])}

\* A variant that returns only the groups of more than one row.
FindMostDuplicatedValuesDuplicatesOnly(frame, col, n, order) ==
    LET duplicated == Filter(order, LAMBDA v : GroupSize(frame, col, v) > 1)
        top_n_actual == IF n < Len(duplicated) THEN n ELSE Len(duplicated)
    IN [k \in 1..top_n_actual |->
            [value |-> duplicated[k], count |-> GroupSize(frame, col, duplicated[k])]]

\* find_most_duplicated_values(df, search_key, top_n), for the order the sort
\* gave the groups.
FindMostDuplicatedValues(frame, col, n, order) ==
    LET top_n_actual == IF n < Len(order) THEN n ELSE Len(order)
    IN [k \in 1..top_n_actual |->
            [value |-> order[k], count |-> GroupSize(frame, col, order[k])]]

\* The dtype of df[cols].values, the array the rows handed to apply(axis=1)
\* are cut from: the common dtype of the selected columns.
RowDtype(frame, cols) ==
    IF \A c \in Range(cols) : frame.dtypes[c] = "int64" THEN "int64"
    ELSE IF \A c \in Range(cols) : frame.dtypes[c] \in {"int64", "float64"}
         THEN "float64"
         ELSE "object"

\* The cell of column c as it stands in row.values: a number of a float64
\* column, or of a row whose common dtype is float64, is a float.
RowValue(frame, cols, c, v) ==
    IF v[1] = "num" /\ (frame.dtypes[c] = "float64" \/ RowDtype(frame, cols) = "float64")
    THEN <<"float", v[2] \o ".0">>
    ELSE v

\* row.values of row i of df_subset[columns].
RowValues(frame, cols, i) ==
    [k \in 1..Len(cols) |-> RowValue(frame, cols, cols[k], frame.rows[i][cols[k]])]

\* str(val): the text of the value; 'nan' for NaN, '1' for the int 1 and for
\* the string '1', '1.0' for the float.
Str(v) == v[2]

\* '|'.join(strings)
RECURSIVE Join(_)
Join(strings) ==
    IF strings = <<>> THEN ""
    ELSE IF Len(strings) = 1 THEN strings[1]
    ELSE strings[1] \o "|" \o Join(Tail(strings))

\* hashlib.sha256(...).hexdigest(): a function of the string alone; no two
\* of the strings met here share a digest.
Sha256HexDigest(string) == "sha256(" \o string \o ")"

\* calculate_row_hash(row), row given by its values.
CalculateRowHash(row) ==
    Sha256HexDigest(Join([k \in 1..Len(row) |-> Str(row[k])]))

\* A variant of lines 117-118 that mixes the row label into the hashed
\* string.
DfHashSaltedByLabel(frame, cols) ==
    [columns |-> Append(cols, "row_hash"),
     index |-> frame.index,
     rows |-> [i \in 1..NRows(frame) |->
                 [c \in Range(cols) \cup {"row_hash"} |->
                     IF c = "row_hash"
                     THEN CalculateRowHash(Append(RowValues(frame, cols, i),
                                                  <<"int", ToString(frame.index[i])>>))
                     ELSE frame.rows[i][c]]]]

\* Lines 117-118: df_hash, the copy of the selected columns with the
\* row_hash column that apply(calculate_row_hash, axis=1) gives.
DfHash(frame, cols) ==
    [columns |-> Append(cols, "row_hash"),
     index |-> frame.index,
     rows |-> [i \in 1..NRows(frame) |->
                 [c \in Range(cols) \cup {"row_hash"} |->
                     IF c = "row_hash"
                     THEN CalculateRowHash(RowValues(frame, cols, i))
                     ELSE frame.rows[i][c]]]]

\* A variant of lines 117-118 that writes the row_hash column into the
\* caller's frame.
DfSubsetAfterHashInPlace(frame, cols) ==
    [frame EXCEPT !.columns = Append(frame.columns, "row_hash"),
                  !.rows = [i \in 1..NRows(frame) |->
                               [c \in Range(frame.columns) \cup {"row_hash"} |->
                                   IF c = "row_hash"
                                   THEN CalculateRowHash(RowValues(frame, cols, i))
                                   ELSE frame.rows[i][c]]]]

\* Lines 117-118: the caller's df_subset after them; df_hash is a copy, so
\* the row_hash column does not reach the caller's frame.
DfSubsetAfterHash(frame, cols) == frame

\* analyze_row_hashes(df_subset, columns); the groups of equal hash are kept
\* as a set (their order among equal counts follows the digests).
AnalyzeRowHashes(frame, cols) ==
    LET hashed == DfHash(frame, cols)
        row_hash == [i \in 1..NRows(frame) |-> hashed.rows[i]["row_hash"]]
        hashes == Range(row_hash)
        RowsOf(h) == {i \in 1..NRows(frame) : row_hash[i] = h}
        duplicate_hash_count == NRows(frame) - Cardinality(hashes)
    IN [total_rows |-> NRows(frame),
        unique_hashes |-> Cardinality(hashes),
        duplicate_hash_count |-> duplicate_hash_count,
        duplicate_hash_groups |->
            IF duplicate_hash_count > 0
            THEN {[hash |-> h, count |-> Cardinality(RowsOf(h)),
                   row_indices |-> IndexOf(frame, RowsOf(h))] :
                    h \in {x \in hashes : Cardinality(RowsOf(x)) > 1}}
            ELSE {}]

\* No call of analyze_row_hashes is in progress.
HashIdle ==
    /\ columns = <<>>
    /\ df_hash = None

\* No call of the column-level functions is in progress.
ColumnLevelIdle ==
    /\ protected_columns = <<>>
    /\ column_classification = None
    /\ search_key = AbsentColumn
    /\ top_n = 0
    /\ top_n_values = None

\* No run of main is in progress.
MainIdle ==
    /\ df = None
    /\ original_count = 0
    /\ SEARCH_KEY = AbsentColumn
    /\ BASE_KEY = <<>>
    /\ top_search = None
    /\ classification = None
    /\ hash_analysis = None
    /\ base_validation = None
    /\ minimal_pk_result = None

\* Specification of validate_key_on_subset on drawn inputs: a DataFrame and
\* two key lists S (key_columns) and T (wider_columns) with S inside T.
InitValidate ==
    /\ pc = "validate"
    /\ df_subset \in Frames(GenColumns)
    /\ wider_columns \in ListsOver(Range(GenColumns))
    /\ key_columns \in ListsOver(Range(wider_columns))
    /\ validation = None
    /\ wider_validation = None
    /\ PkIdle
    /\ MainIdle
    /\ ColumnLevelIdle
    /\ HashIdle

CallValidate ==
    /\ pc = "validate"
    /\ validation' = ValidateKeyOnSubset(df_subset, key_columns)
    /\ wider_validation' = ValidateKeyOnSubset(df_subset, wider_columns)
    /\ pc' = "validated"
    /\ UNCHANGED <<df_subset, key_columns, wider_columns, pkVars, mainVars,
                   classifyVars, topNVars, hashVars>>

NextValidate == CallValidate

SpecValidate == InitValidate /\ [][NextValidate]_vars

----------------------------------------------------------------------------
\* Specification of find_minimal_pk on drawn inputs: a DataFrame, a base key
\* and an item-level list sharing no column with it.
ValidateIdle ==
    /\ key_columns = <<>>
    /\ wider_columns = <<>>
    /\ validation = None
    /\ wider_validation = None

\* Subsets of one order over four columns: their rows are drawn from four
\* order lines, three that Qty and Note tell apart only together while
\* ItemID tells them apart alone, and one that repeats the first line's
\* ItemID with NaN in both Qty and Note.
WideColumns == <<"OrderID", "ItemID", "Qty", "Note">>

WideRow(item, qty, note) ==
    [c \in Range(WideColumns) |->
        CASE c = "OrderID" -> <<"str", "A1">>
          [] c = "ItemID" -> item
          [] c = "Qty" -> qty
          [] c = "Note" -> note]

WideRows ==
    {WideRow(<<"num", "100">>, <<"num", "1">>, <<"str", "x">>),
     WideRow(<<"num", "101">>, <<"num", "1">>, <<"str", "y">>),
     WideRow(<<"num", "102">>, <<"num", "2">>, <<"str", "x">>),
     WideRow(<<"num", "100">>, Null, Null)}

WideFrames ==
    UNION {{LoadedFrame(WideColumns, n, r) : r \in [1..n -> WideRows]} :
              n \in 0..MaxRows}

InitPK ==
    /\ pc = "find_minimal_pk"
    /\ df_subset \in Frames(GenColumns)
    /\ base_key \in ListsOver(Range(GenColumns))
    /\ item_level_columns \in ListsOver(Range(df_subset.columns) \ Range(base_key))
    /\ pk = PkEntry
    /\ ValidateIdle
    /\ MainIdle
    /\ ColumnLevelIdle
    /\ HashIdle

PkAdvance(q) ==
    /\ pk' = q
    /\ pc' = IF q.pc = "returned" THEN "returned" ELSE pc
    /\ UNCHANGED <<df_subset, base_key, item_level_columns, validateVars, mainVars,
                   classifyVars, topNVars, hashVars>>

PkSeed ==
    /\ pc = "find_minimal_pk" /\ pk.pc = "seed"
    /\ PkAdvance(PkSeedStep(df_subset, base_key, item_level_columns, pk))

PkSeedValid ==
    /\ pc = "find_minimal_pk" /\ pk.pc = "seeded"
    /\ pk.validation.is_valid
    /\ PkAdvance(PkSeedValidStep(df_subset, base_key, item_level_columns, pk))

PkNullRescue ==
    /\ pc = "find_minimal_pk" /\ pk.pc = "seeded"
    /\ PkRescues(pk)
    /\ \E order \in ListOfSet(DOMAIN pk.validation.null_counts) :
          PkAdvance(PkNullRescueStep(df_subset, base_key, item_level_columns, pk, order))

PkDuplicateFailure ==
    /\ pc = "find_minimal_pk" /\ pk.pc = "seeded"
    /\ ~pk.validation.is_valid /\ ~PkRescues(pk)
    /\ PkAdvance(PkDuplicateFailureStep(df_subset, base_key, item_level_columns, pk))

PkWhile ==
    /\ pc = "find_minimal_pk" /\ pk.pc = "while"
    /\ PkAdvance(PkWhileStep(df_subset, base_key, item_level_columns, pk))

PkFor ==
    /\ pc = "find_minimal_pk" /\ pk.pc = "for"
    /\ PkAdvance(PkForStep(df_subset, base_key, item_level_columns, pk))

PkResult ==
    /\ pc = "find_minimal_pk" /\ pk.pc = "result"
    /\ PkAdvance(PkResultStep(df_subset, base_key, item_level_columns, pk))

NextPK ==
    \/ PkSeed \/ PkSeedValid \/ PkNullRescue \/ PkDuplicateFailure
    \/ PkWhile \/ PkFor \/ PkResult

SpecPK == InitPK /\ [][NextPK]_vars

\* The calls of find_minimal_pk on the four-column subsets with base key
\* OrderID.
InitPKWide ==
    /\ pc = "find_minimal_pk"
    /\ df_subset \in WideFrames
    /\ base_key = <<"OrderID">>
    /\ item_level_columns \in ListsOver(Range(df_subset.columns) \ Range(base_key))
    /\ pk = PkEntry
    /\ ValidateIdle
    /\ MainIdle
    /\ ColumnLevelIdle
    /\ HashIdle

SpecPKWide == InitPKWide /\ [][NextPK]_vars

\* The same calls run to their end: the interpreter executes the next
\* statement of find_minimal_pk as long as there is one.
SpecPKFair == SpecPKWide /\ WF_vars(NextPK)

----------------------------------------------------------------------------
\* Specification of main() of finder_primary_key.py: the loaded DataFrame
\* and the configuration are drawn; each step of main is an action.
DROP_FULL_DUPLICATES == TRUE

\* The rows of the scenario of the documentation.
ScenarioColumns == <<"OrderID", "ItemID", "Qty", "Note">>

ScenarioRow(order, item, qty, note) ==
    [c \in Range(ScenarioColumns) |->
        CASE c = "OrderID" -> <<"str", order>>
          [] c = "ItemID" -> <<"num", item>>
          [] c = "Qty" -> <<"num", qty>>
          [] c = "Note" -> <<"str", note>>]

ScenarioRows ==
    <<ScenarioRow("A1", "100", "2", "x"),
      ScenarioRow("A1", "100", "2", "x"),
      ScenarioRow("A1", "101", "1", "y"),
      ScenarioRow("A1", "102", "5", "y"),
      ScenarioRow("B2", "200", "1", "z")>>

ScenarioFrame == LoadedFrame(ScenarioColumns, Len(ScenarioRows), ScenarioRows)

Init ==
    /\ pc = "load"
    /\ df \in Frames(GenColumns) \cup {ScenarioFrame}
    /\ SEARCH_KEY \in Range(df.columns) \cup {AbsentColumn}
    /\ BASE_KEY \in ListsOver(Range(df.columns)) \cup {<<AbsentColumn>>}
    /\ original_count = 0
    /\ df_subset = None
    /\ top_search = None
    /\ classification = None
    /\ hash_analysis = None
    /\ base_validation = None
    /\ minimal_pk_result = None
    /\ ValidateIdle
    /\ PkIdle
    /\ ColumnLevelIdle
    /\ HashIdle

\* Lines 659-670: full duplicate rows are removed.
MainDropDuplicates ==
    /\ pc = "load"
    /\ original_count' = NRows(df)
    /\ df' = IF DROP_FULL_DUPLICATES THEN DropFullDuplicates(df) ELSE df
    /\ pc' = "check_config"
    /\ UNCHANGED <<df_subset, validateVars, pkVars, classifyVars, topNVars, hashVars,
                   configVars, top_search, classification, hash_analysis,
                   base_validation, minimal_pk_result>>

\* Lines 672-685: main returns when a configured column is missing.
MainCheckConfig ==
    /\ pc = "check_config"
    /\ pc' = IF SEARCH_KEY \in Range(df.columns) /\ ValidateColumnsExist(df, BASE_KEY)
             THEN "find_top" ELSE "done"
    /\ UNCHANGED <<df_subset, validateVars, pkVars, classifyVars, topNVars, hashVars,
                   mainVars>>

\* Lines 687-696: the most duplicated scope value; main returns without one.
MainFindTop ==
    /\ pc = "find_top"
    /\ top_search' = FindMostDuplicatedSearchKey(df, SEARCH_KEY)
    /\ pc' = IF top_search' = None THEN "done" ELSE "get_subset"
    /\ UNCHANGED <<df_subset, validateVars, pkVars, classifyVars, topNVars, hashVars, df,
                   original_count, configVars, classification,
                   hash_analysis, base_validation, minimal_pk_result>>

\* Lines 698-700.
MainGetSubset ==
    /\ pc = "get_subset"
    /\ df_subset' = GetSubsetBySearchKeyValue(df, SEARCH_KEY, top_search.value)
    /\ pc' = "classify"
    /\ UNCHANGED <<validateVars, pkVars, classifyVars, topNVars, hashVars, mainVars>>

\* Lines 702-707.
MainClassify ==
    /\ pc = "classify"
    /\ classification' = ClassifyColumnsByVariance(df_subset, BASE_KEY)
    /\ pc' = "hash"
    /\ UNCHANGED <<df_subset, validateVars, pkVars, classifyVars, topNVars, hashVars, df,
                   original_count, configVars, top_search,
                   hash_analysis, base_validation, minimal_pk_result>>

\* Lines 709-716.
MainHash ==
    /\ pc = "hash"
    /\ columns' = classification.base_key \o classification.item_level
    /\ df_hash' = DfHash(df_subset, columns')
    /\ hash_analysis' = AnalyzeRowHashes(df_subset, columns')
    /\ df_subset' = DfSubsetAfterHash(df_subset, columns')
    /\ pc' = "validate_base"
    /\ UNCHANGED <<validateVars, pkVars, classifyVars, topNVars, df,
                   original_count, configVars, top_search, classification,
                   base_validation, minimal_pk_result>>

\* Lines 718-724.
MainValidateBase ==
    /\ pc = "validate_base"
    /\ base_validation' = ValidateKeyOnSubset(df_subset, BASE_KEY)
    /\ pc' = "find_minimal_pk_or_skip"
    /\ UNCHANGED <<df_subset, validateVars, pkVars, classifyVars, topNVars, hashVars, df,
                   original_count, configVars, top_search,
                   classification, hash_analysis, minimal_pk_result>>

\* A variant of the condition that calls the reducer on every invalid base
\* key.
RunsFindMinimalPkOnAnyInvalidBaseKey(base_result, classes) ==
    ~base_result.is_valid

\* Line 770: the condition under which main calls find_minimal_pk (an empty
\* list is falsy).
RunsFindMinimalPk(base_result, classes) ==
    ~base_result.is_valid /\ classes.item_level # <<>>

\* Lines 768-777: the reducer runs on an invalid base key when there are
\* item-level columns.
MainFindMinimalPk ==
    /\ pc = "find_minimal_pk_or_skip"
    /\ IF RunsFindMinimalPk(base_validation, classification)
       THEN minimal_pk_result' \in
                FindMinimalPk(df_subset, BASE_KEY, classification.item_level)
       ELSE minimal_pk_result' = None
    /\ pc' = "done"
    /\ UNCHANGED <<df_subset, validateVars, pkVars, classifyVars, topNVars, hashVars, df,
                   original_count, configVars, top_search,
                   classification, hash_analysis, base_validation>>

Next ==
    \/ MainDropDuplicates \/ MainCheckConfig \/ MainFindTop \/ MainGetSubset
    \/ MainClassify \/ MainHash \/ MainValidateBase \/ MainFindMinimalPk

Spec == Init /\ [][Next]_vars

----------------------------------------------------------------------------
\* Specification of classify_columns and classify_columns_by_variance on
\* drawn inputs: a DataFrame and a list of protected (base key) columns.
InitClassify ==
    /\ pc = "classify_columns"
    /\ df_subset \in Frames(GenColumns)
    /\ protected_columns \in ListsOver(Range(GenColumns) \cup {AbsentColumn})
    /\ column_classification = None
    /\ search_key = AbsentColumn
    /\ top_n = 0
    /\ top_n_values = None
    /\ ValidateIdle
    /\ PkIdle
    /\ MainIdle
    /\ HashIdle

CallClassifyColumns ==
    /\ pc = "classify_columns"
    /\ column_classification' = ClassifyColumns(df_subset, protected_columns)
    /\ pc' = "classify_columns_by_variance"
    /\ UNCHANGED <<df_subset, validateVars, pkVars, mainVars, protected_columns, topNVars,
                   hashVars>>

CallClassifyColumnsByVariance ==
    /\ pc = "classify_columns_by_variance"
    /\ classification' = ClassifyColumnsByVariance(df_subset, protected_columns)
    /\ pc' = "classified"
    /\ UNCHANGED <<df_subset, validateVars, pkVars, classifyVars, topNVars, hashVars,
                   df, original_count, configVars, top_search, hash_analysis,
                   base_validation, minimal_pk_result>>

NextClassify == CallClassifyColumns \/ CallClassifyColumnsByVariance

SpecClassify == InitClassify /\ [][NextClassify]_vars

----------------------------------------------------------------------------
\* Specification of find_most_duplicated_values and find_most_duplicated_value
\* on drawn inputs.
InitTopN ==
    /\ pc = "find_most_duplicated_values"
    /\ df \in Frames(GenColumns)
    /\ search_key \in Range(GenColumns)
    /\ top_n \in 1..MaxTopN
    /\ top_n_values = None
    /\ protected_columns = <<>>
    /\ column_classification = None
    /\ original_count = 0
    /\ df_subset = None
    /\ SEARCH_KEY = AbsentColumn
    /\ BASE_KEY = <<>>
    /\ top_search = None
    /\ classification = None
    /\ hash_analysis = None
    /\ base_validation = None
    /\ minimal_pk_result = None
    /\ ValidateIdle
    /\ PkIdle
    /\ HashIdle

CallFindMostDuplicatedValues ==
    /\ pc = "find_most_duplicated_values"
    /\ \E order \in SortedBySizeDescending(df, search_key) :
          top_n_values' = FindMostDuplicatedValues(df, search_key, top_n, order)
    /\ pc' = "found"
    /\ UNCHANGED <<df_subset, validateVars, pkVars, mainVars, classifyVars,
                   hashVars, search_key, top_n>>

CallFindMostDuplicatedValue ==
    /\ pc = "found"
    /\ top_search' = FindMostDuplicatedValue(df, search_key)
    /\ pc' = "found_top_1"
    /\ UNCHANGED <<df_subset, validateVars, pkVars, classifyVars, topNVars, hashVars,
                   df, original_count, configVars, classification, hash_analysis,
                   base_validation, minimal_pk_result>>

NextTopN == CallFindMostDuplicatedValues \/ CallFindMostDuplicatedValue

SpecTopN == InitTopN /\ [][NextTopN]_vars

----------------------------------------------------------------------------
\* Specification of analyze_row_hashes on drawn inputs: a DataFrame whose
\* cells are strings (with and without the delimiter), a number, the string
\* of that number, the boolean that equals that number, and NaN, and a list
\* of its columns.
MaxHashRows == 2

HashVals ==
    {<<"str", "a">>, <<"str", "a|a">>, <<"num", "1">>, <<"str", "1">>, BoolTrue, Null}

\* Rows over the given columns; the last column holds text or NaN.
HashRows(cols) ==
    {r \in [Range(cols) -> HashVals] :
        r[cols[Len(cols)]] \in {<<"str", "a">>, <<"str", "a|a">>, Null}}

HashFrames(cols) ==
    UNION {{LoadedFrame(cols, n, r) : r \in [1..n -> HashRows(cols)]} :
              n \in 0..MaxHashRows}

InitHash ==
    /\ pc = "analyze_row_hashes"
    /\ df_subset \in HashFrames(GenColumns)
    /\ columns \in ListsOver(Range(GenColumns))
    /\ df_hash = None
    /\ df = None
    /\ original_count = 0
    /\ SEARCH_KEY = AbsentColumn
    /\ BASE_KEY = <<>>
    /\ top_search = None
    /\ classification = None
    /\ hash_analysis = None
    /\ base_validation = None
    /\ minimal_pk_result = None
    /\ ValidateIdle
    /\ PkIdle
    /\ ColumnLevelIdle

CallAnalyzeRowHashes ==
    /\ pc = "analyze_row_hashes"
    /\ df_hash' = DfHash(df_subset, columns)
    /\ hash_analysis' = AnalyzeRowHashes(df_subset, columns)
    /\ df_subset' = DfSubsetAfterHash(df_subset, columns)
    /\ pc' = "hashed"
    /\ UNCHANGED <<columns, validateVars, pkVars, classifyVars, topNVars,
                   df, original_count, configVars, top_search, classification,
                   base_validation, minimal_pk_result>>

NextHash == CallAnalyzeRowHashes

SpecHash == InitHash /\ [][NextHash]_vars

----------------------------------------------------------------------------
\* Vocabulary of the validator's contract, stated on the data itself.
NoNullIn(frame, cols) ==
    \A c \in Range(cols) : \A i \in 1..NRows(frame) : ~IsNull(frame.rows[i][c])

NoTwoRowsAgree(frame, cols) ==
    \A i, j \in 1..NRows(frame) :
        i # j => \E c \in Range(cols) : frame.rows[i][c] # frame.rows[j][c]

DistinctTuples(frame, cols) == {Project(frame, cols, i) : i \in 1..NRows(frame)}

\* C3 (as stated): validator monotonicity, for key lists S inside T: if
\* validate_key_on_subset reports S valid then it reports T valid.
C3_Monotone ==
    pc = "validated" /\ validation.is_valid => wider_validation.is_valid

\* C3 (amended): for a non-empty key list S inside T, if S is reported valid
\* and no column of T outside S holds a null, then T is reported valid.
C3_MonotoneNullFree ==
    (/\ pc = "validated"
     /\ key_columns # <<>>
     /\ validation.is_valid
     /\ NoNullIn(df_subset, Filter(wider_columns, LAMBDA c : c \notin Range(key_columns))))
    => wider_validation.is_valid

\* A valid one-column key over several rows, widened by a null-free column
\* that repeats a value.
C3_Witness ==
    /\ pc = "validated"
    /\ NRows(df_subset) >= 2
    /\ Len(key_columns) = 1
    /\ Len(wider_columns) = 2
    /\ validation.is_valid
    /\ wider_validation.is_valid
    /\ ~ValidateKeyOnSubset(df_subset,
            Filter(wider_columns, LAMBDA c : c \notin Range(key_columns))).is_valid

\* C4: validate_key_on_subset reports is_valid exactly when no key column
\* holds a null and no two rows agree on all key columns, and duplicate_count
\* is total_rows minus the number of distinct projected tuples.
C4_ValidIffNoNullNoDuplicate ==
    pc = "validated" =>
        /\ validation.is_valid <=>
              (NoNullIn(df_subset, key_columns) /\ NoTwoRowsAgree(df_subset, key_columns))
        /\ validation.duplicate_count =
              validation.total_rows - Cardinality(DistinctTuples(df_subset, key_columns))

\* C5: the empty key list is reported valid only on a subset of at most one
\* row.
C5_EmptyKeyValidOnlyUpToOneRow ==
    (pc = "validated" /\ key_columns = <<>> /\ validation.is_valid)
    => NRows(df_subset) <= 1

----------------------------------------------------------------------------
\* find_minimal_pk has returned.
PkReturned == pc = "returned" /\ pk.pc = "returned"

Without(cols, c) == Filter(cols, LAMBDA x : x # c)

\* C1: whenever find_minimal_pk returns is_valid = true, the returned
\* minimal_key is valid under validate_key_on_subset and no column of it
\* outside base_key can be dropped without making it invalid.
C1_ValidResultIsIrreducible ==
    (PkReturned /\ pk.result.is_valid) =>
        /\ ValidateKeyOnSubset(df_subset, pk.result.minimal_key).is_valid
        /\ \A c \in Range(pk.result.minimal_key) \ Range(base_key) :
              ~ValidateKeyOnSubset(df_subset, Without(pk.result.minimal_key, c)).is_valid

\* A valid result over three rows that kept two added columns after at
\* least one failed removal trial.
C1_Witness ==
    /\ PkReturned
    /\ pk.result.is_valid
    /\ NRows(df_subset) = 3
    /\ Len(pk.result.added_columns) = 2
    /\ Range(pk.result.minimal_key) \ Range(base_key) # {}

\* C2: on every return path of find_minimal_pk every column of base_key is
\* in the returned minimal_key, also when a base-key column holds nulls.
C2_BaseKeyRetained ==
    PkReturned => Range(base_key) \subseteq Range(pk.result.minimal_key)

\* C6: find_minimal_pk always goes on to a return (every position of its
\* body short of a return has a next statement, and the call takes it), and
\* the returned is_valid flag is true exactly when the returned minimal_key
\* is valid under validate_key_on_subset.
C6_ReturnsResultWithTruthfulFlag ==
    /\ [](pc = "find_minimal_pk" =>
             PkSteps(df_subset, base_key, item_level_columns, pk) # {})
    /\ [][pc = "find_minimal_pk" =>
             pk' \in PkSteps(df_subset, base_key, item_level_columns, pk)]_vars
    /\ [](PkReturned =>
             /\ pk.result.is_valid \in BOOLEAN
             /\ pk.result.is_valid =
                   ValidateKeyOnSubset(df_subset, pk.result.minimal_key).is_valid)

\* The null rescue failed: the returned key, without its null-bearing
\* columns, has duplicates, and the flag says invalid.
C6_Witness ==
    /\ PkReturned
    /\ ~pk.result.is_valid
    /\ Len(pk.result.minimal_key) < Len(base_key) + Len(item_level_columns)
    /\ pk.result.debug_info.duplicate_count > 0

----------------------------------------------------------------------------
\* main runs on the scenario of the documentation.
ScenarioRun ==
    /\ df # None
    /\ df.columns = ScenarioColumns
    /\ SEARCH_KEY = "OrderID"
    /\ BASE_KEY = <<"OrderID">>

ScenarioResult(r) ==
    /\ r.is_valid
    /\ r.minimal_key = <<"OrderID", "Qty">>
    /\ r.added_columns = <<"Qty">>
    /\ r.removed_columns = <<"ItemID", "Note">>

\* C7: on the scenario rows, removing exact duplicates leaves 4 rows, the
\* top-1 scope group on OrderID is A1 with 3 rows, BASE_KEY = [OrderID] is
\* invalid on that subset with duplicate count 2, and find_minimal_pk (on the
\* item-level list main passes, and on the list ItemID, Qty, Note) returns
\* the valid key [OrderID, Qty], added [Qty], removed [ItemID, Note].
C7_Scenario ==
    ScenarioRun =>
        /\ pc # "load" => NRows(df) = 4
        /\ top_search # None =>
              /\ top_search.value = <<"str", "A1">>
              /\ top_search.count = 3
        /\ base_validation # None =>
              /\ NRows(df_subset) = 3
              /\ ~base_validation.is_valid
              /\ base_validation.duplicate_count = 2
        /\ pc = "done" =>
              /\ minimal_pk_result # None
              /\ ScenarioResult(minimal_pk_result)
              /\ \A r \in FindMinimalPk(df_subset, <<"OrderID">>,
                                        <<"ItemID", "Qty", "Note">>) :
                    ScenarioResult(r)

\* The scenario run has reached the end of main with a reducer result.
C7_Witness ==
    /\ ScenarioRun
    /\ pc = "done"
    /\ minimal_pk_result # None
    /\ Range(classification.item_level) = {"ItemID", "Qty", "Note"}

----------------------------------------------------------------------------
\* The column names of a list of col_info entries.
InfoNames(infos) == [k \in 1..Len(infos) |-> infos[k].column]

ClassifyColumnsCalled == pc \in {"classify_columns_by_variance", "classified"}

\* C8: classify_columns puts every column of the subset in exactly one of
\* protected, order_level and item_level, and a column named in
\* protected_columns goes to protected whatever its cardinality;
\* classify_columns_by_variance splits the columns outside base_key the same
\* way.
C8_ClassificationIsPartition ==
    /\ ClassifyColumnsCalled =>
          LET protected == InfoNames(column_classification.protected)
              order_level == InfoNames(column_classification.order_level)
              item_level == InfoNames(column_classification.item_level)
          IN /\ Range(protected) \cap Range(order_level) = {}
             /\ Range(protected) \cap Range(item_level) = {}
             /\ Range(order_level) \cap Range(item_level) = {}
             /\ Range(protected) \cup Range(order_level) \cup Range(item_level)
                    = Range(df_subset.columns)
             /\ Len(protected) + Len(order_level) + Len(item_level)
                    = Len(df_subset.columns)
             /\ Range(protected)
                    = Range(df_subset.columns) \cap Range(protected_columns)
    /\ pc = "classified" =>
          /\ Range(classification.order_level) \cap Range(classification.item_level) = {}
          /\ Range(classification.order_level) \cup Range(classification.item_level)
                = Range(df_subset.columns) \ Range(protected_columns)
          /\ Len(classification.order_level) + Len(classification.item_level)
                = Cardinality(Range(df_subset.columns) \ Range(protected_columns))
          /\ classification.base_key = protected_columns

\* A constant column is protected while the other column varies.
C8_Witness ==
    /\ pc = "classified"
    /\ NRows(df_subset) >= 2
    /\ Len(column_classification.protected) = 1
    /\ column_classification.protected[1].unique_count = 1
    /\ Len(column_classification.item_level) = 1

\* All rows hold the same value in the column (NaN equal to NaN only).
AllValuesEqual(frame, col) ==
    \A i, j \in 1..NRows(frame) : frame.rows[i][col] = frame.rows[j][col]

\* The number of distinct non-null values, plus one when a NaN is present.
DistinctCountingNull(frame, col) ==
    Cardinality({v \in ColumnValues(frame, col) : ~IsNull(v)})
        + (IF \E i \in 1..NRows(frame) : IsNull(frame.rows[i][col]) THEN 1 ELSE 0)

\* C9: a non-protected column is order_level exactly when its unique_count,
\* with null counted as one value, is at most 1 (all its values are equal;
\* the zero-row and all-null cases included) and item_level exactly when it
\* is greater than 1.
C9_OrderLevelIffConstant ==
    ClassifyColumnsCalled =>
        LET order_level == column_classification.order_level
            item_level == column_classification.item_level
        IN /\ \A c \in Range(df_subset.columns) \ Range(protected_columns) :
                /\ c \in Range(InfoNames(order_level)) <=> AllValuesEqual(df_subset, c)
                /\ c \in Range(InfoNames(item_level)) <=> ~AllValuesEqual(df_subset, c)
           /\ \A k \in 1..Len(order_level) :
                /\ order_level[k].unique_count
                       = DistinctCountingNull(df_subset, order_level[k].column)
                /\ order_level[k].unique_count <= 1
           /\ \A k \in 1..Len(item_level) :
                /\ item_level[k].unique_count
                       = DistinctCountingNull(df_subset, item_level[k].column)
                /\ item_level[k].unique_count > 1

\* A column holding a null and one repeated non-null value is item_level,
\* beside an all-null column that is order_level.
C9_Witness ==
    /\ pc = "classified"
    /\ NRows(df_subset) = 3
    /\ \E k \in 1..Len(column_classification.item_level) :
          /\ column_classification.item_level[k].null_count = 1
          /\ column_classification.item_level[k].unique_count = 2
    /\ \E k \in 1..Len(column_classification.order_level) :
          column_classification.order_level[k].null_count = 3

----------------------------------------------------------------------------
\* The position of the first row holding v in the column.
FirstEncountered(frame, col, v) ==
    CHOOSE i \in RowsWithValue(frame, col, v) :
        \A j \in RowsWithValue(frame, col, v) : i <= j

GroupsByDescendingCount ==
    /\ \A k \in 1..Len(top_n_values) :
          /\ top_n_values[k].value \in ColumnValues(df, search_key)
          /\ top_n_values[k].count
                = Cardinality({i \in 1..NRows(df) :
                                  df.rows[i][search_key] = top_n_values[k].value})
    /\ \A i, j \in 1..Len(top_n_values) :
          /\ i < j => top_n_values[i].count >= top_n_values[j].count
          /\ i # j => top_n_values[i].value # top_n_values[j].value
    /\ \A v \in ColumnValues(df, search_key) :
          \/ \E k \in 1..Len(top_n_values) : top_n_values[k].value = v
          \/ /\ Len(top_n_values) = top_n
             /\ \A k \in 1..Len(top_n_values) :
                   top_n_values[k].count >= GroupSize(df, search_key, v)

\* C10 (as stated): the groups of the scope column (null its own group) come
\* back by descending row count, and groups of equal count in the order in
\* which their values are first encountered in the dataset.
C10_TiesInFirstEncounteredOrder ==
    pc = "found" =>
        /\ GroupsByDescendingCount
        /\ \A i, j \in 1..Len(top_n_values) :
              (i < j /\ top_n_values[i].count = top_n_values[j].count)
              => FirstEncountered(df, search_key, top_n_values[i].value)
                    < FirstEncountered(df, search_key, top_n_values[j].value)

\* C10 (amended): the groups of the scope column (null its own group) come
\* back by descending row count, each with its row count, and a group left
\* out by top_n is no larger than any group returned; nothing is promised
\* about the order of groups of equal count.
C10_GroupsByDescendingCount ==
    pc = "found" => GroupsByDescendingCount

\* A larger group comes before a smaller one, and the null group is
\* returned.
C10_Witness ==
    /\ pc = "found"
    /\ Len(top_n_values) = 2
    /\ top_n_values[1].count = 2
    /\ top_n_values[2].count = 1
    /\ IsNull(top_n_values[2].value)

----------------------------------------------------------------------------
\* find_most_duplicated_values has returned.
TopNFound == pc \in {"found", "found_top_1"}

Min(a, b) == IF a < b THEN a ELSE b

LabelsOfValue(frame, col, v) ==
    SelectSeq(frame.index,
              LAMBDA label : \E i \in 1..NRows(frame) :
                  frame.index[i] = label /\ frame.rows[i][col] = v)

\* C12: the top-1 selector returns None exactly when no scope-column value
\* occurs in more than one row; otherwise it returns a group whose count is
\* at least 2 and the maximum over all groups, whose row_indices are exactly
\* the rows carrying that value (null matched to null), and whose count is
\* the number of row_indices.  find_most_duplicated_search_key returns the
\* same.
C12_TopOneIsLargestDuplicatedGroup ==
    pc = "found_top_1" =>
        /\ top_search = None <=>
              \A v \in ColumnValues(df, search_key) :
                  Cardinality({i \in 1..NRows(df) : df.rows[i][search_key] = v}) <= 1
        /\ top_search # None =>
              /\ top_search.count >= 2
              /\ \A v \in ColumnValues(df, search_key) :
                    Cardinality({i \in 1..NRows(df) : df.rows[i][search_key] = v})
                        <= top_search.count
              /\ top_search.row_indices
                    = LabelsOfValue(df, search_key, top_search.value)
              /\ top_search.count = Len(top_search.row_indices)
        /\ FindMostDuplicatedSearchKey(df, search_key) = top_search

\* The null group is the duplicated one, beside a value that occurs once.
C12_Witness ==
    /\ pc = "found_top_1"
    /\ top_search # None
    /\ IsNull(top_search.value)
    /\ top_search.count = 2
    /\ NRows(df) = 3

----------------------------------------------------------------------------
\* The digest analyze_row_hashes gave row i.
RowHashOf(i) == df_hash.rows[i]["row_hash"]

\* The cells of row i in the hashed columns, in their order.
HashedCells(i) == [k \in 1..Len(columns) |-> df_subset.rows[i][columns[k]]]

\* C13: hash determinism: two rows whose values are identical in every
\* hashed column receive identical digests, and hashing the same row again
\* gives the same digest.
C13_HashDeterministic ==
    pc = "hashed" =>
        /\ \A i, j \in 1..NRows(df_subset) :
              HashedCells(i) = HashedCells(j) => RowHashOf(i) = RowHashOf(j)
        /\ \A i \in 1..NRows(df_subset) :
              CalculateRowHash(RowValues(df_subset, columns, i)) = RowHashOf(i)

\* Two rows that agree on the one hashed column, a NaN, and differ in the
\* column left out of the hash.
C13_Witness ==
    /\ pc = "hashed"
    /\ NRows(df_subset) = 2
    /\ Len(columns) = 1
    /\ IsNull(df_subset.rows[1][columns[1]])
    /\ IsNull(df_subset.rows[2][columns[1]])
    /\ df_subset.rows[1] # df_subset.rows[2]
    /\ RowHashOf(1) = RowHashOf(2)

\* C14: two rows that differ in the value of at least one hashed column are
\* given different joined strings, hence different digests, by
\* calculate_row_hash.
C14_DistinctRowsDistinctStrings ==
    pc = "hashed" =>
        \A i, j \in 1..NRows(df_subset) :
            HashedCells(i) # HashedCells(j)
            => RowHashOf(i) # RowHashOf(j)

----------------------------------------------------------------------------
\* The positions of the rows of the frame that no earlier row equals across
\* all columns (NaN equal to NaN).
FirstOccurrences(frame) ==
    {i \in 1..NRows(frame) : \A j \in 1..(i - 1) : frame.rows[j] # frame.rows[i]}

\* after holds exactly the rows of before at the given positions, in their
\* original relative order.
KeepsInOrder(before, after, positions) ==
    \E f \in [1..NRows(after) -> 1..NRows(before)] :
        /\ \A k, l \in 1..NRows(after) : k < l => f[k] < f[l]
        /\ \A k \in 1..NRows(after) : after.rows[k] = before.rows[f[k]]
        /\ {f[k] : k \in 1..NRows(after)} = positions

\* C15: the removal of exact duplicates keeps, for every distinct full-row
\* tuple, exactly its first occurrence, the survivors in their original
\* relative order; afterwards no two rows are equal across all columns, and
\* a second removal changes nothing.
C15_DedupKeepsFirstOccurrences ==
    [][pc = "load" =>
          /\ KeepsInOrder(df, df', FirstOccurrences(df))
          /\ \A i, j \in 1..NRows(df') : i # j => df'.rows[i] # df'.rows[j]
          /\ DropFullDuplicates(df') = df']_vars

\* A repeated row was removed and two different rows survive.
C15_Witness ==
    /\ pc = "check_config"
    /\ original_count = 3
    /\ NRows(df) = 2

----------------------------------------------------------------------------
\* C16: on every return path of find_minimal_pk, called with a base key and
\* an item-level list that share no column, added_columns is minimal_key
\* without the base_key columns, in the order of minimal_key.
C16_AddedColumnsIsKeyWithoutBase ==
    PkReturned =>
        pk.result.added_columns
            = SelectSeq(pk.result.minimal_key, LAMBDA c : c \notin Range(base_key))

\* A valid result that kept its base-key column and one added column.
C16_Witness ==
    /\ PkReturned
    /\ pk.result.is_valid
    /\ Len(base_key) = 1
    /\ Len(pk.result.minimal_key) = 2
    /\ NRows(df_subset) >= 2

----------------------------------------------------------------------------
\* The positions of main at which a core operation runs.
CoreOperationRuns ==
    pc \in {"find_top", "get_subset", "classify", "hash", "validate_base",
            "find_minimal_pk_or_skip"}

\* C17: no core operation (scope selection, subset extraction,
\* classification, row hashing, key validation, minimal-key reduction)
\* changes the dataset it is given or the caller's base_key and
\* item_level_columns lists.
C17_OperationsLeaveInputsUnchanged ==
    [][CoreOperationRuns =>
          /\ df' = df
          /\ BASE_KEY' = BASE_KEY
          /\ pc # "get_subset" => df_subset' = df_subset
          /\ pc # "classify" => classification' = classification]_vars

\* All six operations have run, the reducer included, on a subset of three
\* rows with a non-empty base key.
C17_Witness ==
    /\ pc = "done"
    /\ minimal_pk_result # None
    /\ df.columns = GenColumns
    /\ NRows(df_subset) = 3
    /\ BASE_KEY # <<>>

----------------------------------------------------------------------------
\* The seed key of find_minimal_pk and its columns that hold a null.
SeedKey == base_key \o item_level_columns

NullBearing(frame, cols) ==
    {c \in Range(cols) : \E i \in 1..NRows(frame) : IsNull(frame.rows[i][c])}

PkAtBranch == pc = "find_minimal_pk" /\ pk.pc = "seeded"

C19_DuplicateFailureReturnsSeed ==
    [][(PkAtBranch /\ ValidateKeyOnSubset(df_subset, SeedKey).duplicate_count > 0)
       => /\ pk'.pc = "returned"
          /\ ~pk'.result.is_valid
          /\ pk'.result.minimal_key = SeedKey
          /\ pk'.result.removed_columns = <<>>
          /\ Len(pk'.result.iterations) = 1
          /\ pk'.result.iterations[1].columns = SeedKey]_vars

\* The seed has duplicates and a null-bearing column, and was returned
\* unchanged.
C19_Witness ==
    /\ PkReturned
    /\ ~pk.result.is_valid
    /\ pk.result.minimal_key = SeedKey
    /\ pk.result.debug_info.duplicate_count > 0
    /\ NullBearing(df_subset, SeedKey) # {}
    /\ Len(SeedKey) = 2

----------------------------------------------------------------------------
\* The removal of column c from the key is valid.
RemovalIsValid(frame, key, c) == ValidateKeyOnSubset(frame, Without(key, c)).is_valid

\* C20: reduction loop: every scan goes over the current candidate from its
\* beginning; the first non-base column (in the candidate's order) whose
\* removal leaves a valid key is removed, appended to removed_columns and to
\* the trace, and the scan restarts; columns whose removal is invalid are
\* kept; a scan that ends without a removal ends the loop; base-key columns
\* are never tried.
C20_FirstRemovableColumnIsRemoved ==
    [][(pc = "find_minimal_pk" /\ pk.pc \in {"while", "for"}) =>
         LET tryable == SelectSeq(pk.current_key, LAMBDA c : c \notin Range(base_key))
         IN /\ (pk.pc = "while" /\ pk.improved) => pk'.scan = pk.current_key
            /\ pk'.current_key # pk.current_key =>
                  \E k \in 1..Len(tryable) :
                      /\ RemovalIsValid(df_subset, pk.current_key, tryable[k])
                      /\ \A l \in 1..(k - 1) :
                            ~RemovalIsValid(df_subset, pk.current_key, tryable[l])
                      /\ pk'.current_key = Without(pk.current_key, tryable[k])
                      /\ pk'.removed_columns = Append(pk.removed_columns, tryable[k])
                      /\ Len(pk'.iterations) = Len(pk.iterations) + 1
                      /\ pk'.iterations[Len(pk'.iterations)].columns = pk'.current_key
                      /\ pk'.pc = "while" /\ pk'.improved
            /\ (pk.pc = "for" /\ pk'.pc = "while" /\ pk'.current_key = pk.current_key) =>
                  /\ ~pk'.improved
                  /\ \A k \in 1..Len(tryable) :
                        ~RemovalIsValid(df_subset, pk.current_key, tryable[k])]_vars

\* The first column of the candidate was tried and kept, the second one
\* removed, and a new scan is about to start.
C20_Witness ==
    /\ pc = "find_minimal_pk"
    /\ pk.pc = "while"
    /\ Len(item_level_columns) = 2
    /\ pk.removed_columns = <<item_level_columns[2]>>
    /\ pk.current_key = <<item_level_columns[1]>>

----------------------------------------------------------------------------
\* The candidate that enters the reduction loop: the seed when it is valid,
\* the seed without its null-bearing columns after a null rescue.
EnteringCandidate ==
    IF ValidateKeyOnSubset(df_subset, SeedKey).is_valid
    THEN SeedKey
    ELSE SelectSeq(SeedKey, LAMBDA c : c \notin NullBearing(df_subset, SeedKey))

PkInLoop == pc = "find_minimal_pk" /\ pk.pc \in {"while", "for"}

\* C21: the reduction loop terminates for every input: every call of
\* find_minimal_pk returns; a pass of the outer loop either commits exactly
\* one removal, shortening the candidate by one column, or commits none and
\* ends the loop; the removals are distinct non-base columns of the candidate
\* that entered the loop, so at most k passes commit a removal.
C21_ReductionLoopTerminates ==
    /\ [](PkInLoop =>
            /\ IsInjective(pk.removed_columns)
            /\ Range(pk.removed_columns)
                  \subseteq Range(EnteringCandidate) \ Range(base_key)
            /\ Len(pk.current_key) + Len(pk.removed_columns) = Len(EnteringCandidate))
    /\ [][(PkInLoop /\ pk.pc = "for" /\ pk'.pc = "while") =>
             \/ /\ pk'.improved
                /\ Len(pk'.current_key) = Len(pk.current_key) - 1
                /\ Len(pk'.removed_columns) = Len(pk.removed_columns) + 1
             \/ /\ ~pk'.improved
                /\ pk'.current_key = pk.current_key
                /\ pk'.removed_columns = pk.removed_columns]_vars
    /\ [][(PkInLoop /\ pk.pc = "while" /\ ~pk.improved) => pk'.pc = "result"]_vars
    /\ (pc = "find_minimal_pk" ~> PkReturned)

\* The loop ended after three passes, two of which removed a column.
C21_Witness ==
    /\ PkReturned
    /\ pk.result.is_valid
    /\ Len(pk.result.removed_columns) = 2
    /\ Len(pk.result.minimal_key) = 2
    /\ Len(item_level_columns) = 3

\* The trials of one scan, each evaluated against the candidate the scan
\* started from, in the order given: the verdict of every trial, then the
\* removal of the valid trial whose column stands earliest in the candidate.
Position(cols, c) == CHOOSE i \in 1..Len(cols) : cols[i] = c

IndependentScan(frame, p, order) ==
    LET verdict == [i \in 1..Len(order) |-> RemovalIsValid(frame, p.current_key, order[i])]
        valid == {order[i] : i \in {j \in 1..Len(order) : verdict[j]}}
    IN IF valid = {}
       THEN [current_key |-> p.current_key,
             removed_columns |-> p.removed_columns,
             iterations |-> p.iterations,
             improved |-> FALSE]
       ELSE LET col == CHOOSE c \in valid :
                           \A d \in valid : Position(p.current_key, c) <= Position(p.current_key, d)
                temp_key == Without(p.current_key, col)
            IN [current_key |-> temp_key,
                removed_columns |-> Append(p.removed_columns, col),
                iterations |-> Append(p.iterations,
                                      [action |-> "Removed: " \o col,
                                       columns |-> temp_key,
                                       count |-> Len(temp_key),
                                       is_valid |-> TRUE]),
                improved |-> TRUE]

IsSuffix(s, t) == Len(s) <= Len(t) /\ s = SubSeq(t, Len(t) - Len(s) + 1, Len(t))

\* C22: within one scan the trials are independent: while a scan runs the
\* candidate is the one the scan started from, and when the scan ends, the
\* candidate, removed_columns and the trace are those obtained by evaluating
\* every trial against the scan-start candidate in any order and committing
\* the valid trial of the earliest-positioned non-base column.
C22_ScanTrialsAreIndependent ==
    /\ []((pc = "find_minimal_pk" /\ pk.pc = "for") =>
             ~pk.improved /\ IsSuffix(pk.scan, pk.current_key))
    /\ [][(pc = "find_minimal_pk" /\ pk.pc = "for" /\ pk'.pc = "while") =>
            \A order \in {l \in ListsOver(Range(pk.current_key) \ Range(base_key)) :
                             Len(l) = Cardinality(Range(pk.current_key) \ Range(base_key))} :
                IndependentScan(df_subset, pk, order) =
                    [current_key |-> pk'.current_key,
                     removed_columns |-> pk'.removed_columns,
                     iterations |-> pk'.iterations,
                     improved |-> pk'.improved]]_vars

\* A scan over three non-base columns, each of which could be removed from
\* the scan-start candidate, has just committed the removal of the
\* earliest-positioned one.
C22_Witness ==
    /\ pc = "find_minimal_pk" /\ pk.pc = "while" /\ pk.improved
    /\ Len(SeedKey) = 4 /\ Len(base_key) = 1
    /\ pk.removed_columns = <<SeedKey[2]>>
    /\ pk.current_key = Without(SeedKey, SeedKey[2])
    /\ RemovalIsValid(df_subset, SeedKey, SeedKey[3])
    /\ RemovalIsValid(df_subset, SeedKey, SeedKey[4])

\* C23: the reducer is deterministic on every return path: whatever a call
\* of find_minimal_pk has returned, every run on the same subset, base key
\* and item-level list returns the same result (the same minimal_key,
\* added_columns, removed_columns in the same order, and the same trace).
C23_RunsReturnIdenticalResults ==
    PkReturned =>
        \A other \in FindMinimalPk(df_subset, base_key, item_level_columns) :
            other = pk.result

\* Three lines of one order: ItemID tells them apart alone, Qty and Note only
\* together.
ThreeLines ==
    LoadedFrame(WideColumns, 3,
                <<WideRow(<<"num", "100">>, <<"num", "1">>, <<"str", "x">>),
                  WideRow(<<"num", "101">>, <<"num", "1">>, <<"str", "y">>),
                  WideRow(<<"num", "102">>, <<"num", "2">>, <<"str", "x">>)>>)

\* C24: the returned key is not always of minimum cardinality, and the order
\* of the item-level columns decides which key is returned: on the three
\* order lines with base key OrderID, the item order ItemID, Qty, Note
\* returns the valid three-column key OrderID, Qty, Note although the
\* two-column key OrderID, ItemID is valid, and the item order Qty, Note,
\* ItemID returns that two-column key.
C24_ReturnedKeyDependsOnItemOrder ==
    (PkReturned /\ df_subset = ThreeLines /\ base_key = <<"OrderID">>) =>
        /\ item_level_columns = <<"ItemID", "Qty", "Note">> =>
              /\ pk.result.is_valid
              /\ pk.result.minimal_key = <<"OrderID", "Qty", "Note">>
              /\ ValidateKeyOnSubset(df_subset, <<"OrderID", "ItemID">>).is_valid
        /\ item_level_columns = <<"Qty", "Note", "ItemID">> =>
              /\ pk.result.is_valid
              /\ pk.result.minimal_key = <<"OrderID", "ItemID">>

\* A call has returned a valid key although a valid key with fewer columns,
\* containing base_key and drawn from the seed columns, exists, and the same
\* item-level columns in another order give another key.
C24_Witness ==
    /\ PkReturned
    /\ pk.result.is_valid
    /\ base_key # <<>>
    /\ \E other \in ListsOver(Range(SeedKey)) :
          /\ Range(base_key) \subseteq Range(other)
          /\ Len(other) < Len(pk.result.minimal_key)
          /\ ValidateKeyOnSubset(df_subset, other).is_valid
    /\ \E reordered \in ListsOver(Range(item_level_columns)) :
          /\ Len(reordered) = Len(item_level_columns)
          /\ \E r \in FindMinimalPk(df_subset, base_key, reordered) :
                r.is_valid /\ Len(r.minimal_key) < Len(pk.result.minimal_key)

\* Positions of the rows whose tuple over the key columns is also the tuple
\* of another row.
RepeatedRows ==
    {i \in 1..NRows(df_subset) :
        \E j \in 1..NRows(df_subset) :
            j # i /\ \A c \in Range(key_columns) :
                        df_subset.rows[j][c] = df_subset.rows[i][c]}

\* C25: duplicate_rows is empty when duplicate_count is 0; otherwise it holds
\* the identifiers, in row order, of exactly the rows whose projected tuple
\* occurs more than once, first occurrences included, so that it has more
\* entries than duplicate_count.
C25_DuplicateRowsAreAllRepeatedRows ==
    pc = "validated" =>
        /\ validation.duplicate_count = 0 => validation.duplicate_rows = <<>>
        /\ validation.duplicate_count > 0 =>
              /\ Range(validation.duplicate_rows) = {df_subset.index[i] : i \in RepeatedRows}
              /\ Len(validation.duplicate_rows) = Cardinality(RepeatedRows)
              /\ \A k, l \in 1..Len(validation.duplicate_rows) :
                    k < l => validation.duplicate_rows[k] < validation.duplicate_rows[l]
              /\ Len(validation.duplicate_rows) > validation.duplicate_count

\* Three rows of which two share their tuple over a non-empty key: one
\* duplicate is counted and both rows of the pair are reported.
C25_Witness ==
    /\ pc = "validated"
    /\ key_columns # <<>>
    /\ NRows(df_subset) = 3
    /\ validation.duplicate_count = 1
    /\ Len(validation.duplicate_rows) = 2
    /\ \A i \in RepeatedRows : validation.duplicate_rows[1] <= df_subset.index[i]

\* The order of the steps of the primary-key pipeline.
PipelineOrder ==
    {<<"load", "check_config">>, <<"check_config", "find_top">>,
     <<"check_config", "done">>, <<"find_top", "get_subset">>,
     <<"find_top", "done">>, <<"get_subset", "classify">>,
     <<"classify", "hash">>, <<"hash", "validate_base">>,
     <<"validate_base", "find_minimal_pk_or_skip">>,
     <<"find_minimal_pk_or_skip", "done">>}

\* The products of the steps appear in the pipeline's order: nothing is
\* classified before the scope subset is cut, nothing hashed before the
\* classification, the base key is not validated before the hashing, and the
\* reducer has no result before the base key's validation.
ProductsInOrder ==
    /\ classification # None => df_subset # None /\ top_search # None
    /\ hash_analysis # None => classification # None
    /\ base_validation # None => hash_analysis # None
    /\ minimal_pk_result # None => base_validation # None

PipelineDone == pc = "done" /\ base_validation # None

C27_KeyAndRemovedPartitionSeed ==
    PkReturned =>
        /\ Range(pk.result.minimal_key) \cap Range(pk.result.removed_columns) = {}
        /\ Range(pk.result.minimal_key) \cup Range(pk.result.removed_columns) =
               Range(SeedKey)

\* C28: the number of distinct row hashes reported by analyze_row_hashes is
\* at most the number of distinct tuples validate_key_on_subset counts on the
\* same columns; hence, whenever the validator reports duplicate_count > 0,
\* the hash analysis reports duplicate_hash_count > 0 and every two rows that
\* the validator reports as sharing a tuple stand together in the row_indices
\* of one duplicate hash group.
C28_HashesNoFinerThanTuples ==
    pc = "hashed" =>
        LET on_columns == ValidateKeyOnSubset(df_subset, columns)
            reported == {i \in 1..NRows(df_subset) :
                            df_subset.index[i] \in Range(on_columns.duplicate_rows)}
        IN /\ hash_analysis.unique_hashes <= on_columns.unique_count
           /\ on_columns.duplicate_count > 0 =>
                 /\ hash_analysis.duplicate_hash_count > 0
                 /\ \A i, j \in reported :
                       (i # j /\ Project(df_subset, columns, i) = Project(df_subset, columns, j)) =>
                          \E group \in hash_analysis.duplicate_hash_groups :
                              {df_subset.index[i], df_subset.index[j]} \subseteq
                                  Range(group.row_indices)
====
